---- MODULE Spec2Model ----
(***************************************************************************)
(* The Loki log-window engine of true-love-server's admin page             *)
(* (useLokiLogs): a time-ordered window of log entries that is extended    *)
(* forward and backward by range fetches, with a polling timer.            *)
(*                                                                         *)
(* The repository carries two copies of the engine: the one attached to    *)
(* window (part_002, lines 5-253) and the exported ES module (part_002,    *)
(* lines 263-522).  The variable impl says which copy is running.          *)
(*                                                                         *)
(* JavaScript is single threaded: an async function runs without           *)
(* interruption up to its await, and the continuations after the await     *)
(* (fetchLokiLogs' merge, then the caller's epilogue) run in one microtask *)
(* drain.  So each call is one action up to the fetch, and each fetch      *)
(* completion is one action.                                               *)
(***************************************************************************)
EXTENDS Integers, Sequences, FiniteSets, Bags, TLC

VARIABLES
    impl,               \* "window" or "export": which copy of the engine runs
    lokiLogs,           \* lokiLogs.value
    lokiEarliestMs,     \* lokiEarliestMs.value
    lokiLatestMs,       \* lokiLatestMs.value
    lokiCanLoadOlder,   \* lokiCanLoadOlder.value
    lokiLoading,        \* lokiLoading.value
    lokiLoadingOlder,   \* lokiLoadingOlder.value
    lokiLoadingNewer,   \* lokiLoadingNewer.value
    lokiAutoScroll,     \* lokiAutoScroll.value
    lokiPolling,        \* lokiPolling.value
    lokiPollTimer,      \* lokiPollTimer: TRUE when it holds a timer's handle
    timers,             \* how many interval timers are set and not cleared
    calls,              \* the bag of async calls suspended at their await
    lokiServiceFilter,  \* lokiServiceFilter.value
    activeTab,          \* activeTab.value of the app
    mounted,            \* the app is mounted (onUnmounted has not run)
    containerScrollTop, \* lokiLogsContainer.value.scrollTop
    prevScrollHeight,   \* prevScrollHeight held by the loadOlderLogs in flight
    last                \* what the last step did (observation only)

vars == <<impl, lokiLogs, lokiEarliestMs, lokiLatestMs, lokiCanLoadOlder,
          lokiLoading, lokiLoadingOlder, lokiLoadingNewer, lokiAutoScroll,
          lokiPolling, lokiPollTimer, timers, calls, lokiServiceFilter, activeTab,
          mounted, containerScrollTop, prevScrollHeight, last>>

\* What belongs to the page around the fetching engine: the service
\* filter, the app's tab and the scroll container.
page == <<lokiServiceFilter, activeTab, mounted, containerScrollTop, prevScrollHeight>>

\* The four parts of the window that the store owns.
window == <<lokiLogs, lokiEarliestMs, lokiLatestMs, lokiCanLoadOlder>>

\* Everything the engine holds (all but the observation of the last step).
engine == <<window, lokiLoading, lokiLoadingOlder, lokiLoadingNewer, lokiAutoScroll,
            lokiPolling, lokiPollTimer, timers, calls>>

----------------------------------------------------------------------------
(* Bounds of the model *)

\* Longest response batch the backend sends.
MaxBatch == 2
\* Most initLokiLogs calls suspended at once (the code has no guard on it).
MaxInit == 2

(* Program constants *)

\* 60 * 60 * 1000
HourMs == 3600000
\* setInterval(..., 5000)
PollMs == 5000
\* scrollHeight - scrollTop - clientHeight < 100
BottomThreshold == 100
\* scrollTop < 50
TopThreshold == 50

\* Date.now() when the page is opened, and the values Date.now() returns to
\* the calls (the wall clock, read once per call).
StartNow == 2 * HourMs
Nows == {StartNow}

\* Two successive readings of Date.now() within one call: the clock stands
\* still, moves on, or is set back between them.
Clock == {<<StartNow, StartNow>>, <<StartNow, StartNow + 1>>, <<StartNow + 5, StartNow>>}

\* lokiServices.value
lokiServices == <<"ai", "base", "server">>

\* Per-fetch limit passed to api.fetchLokiLogs.
Limit(i) == IF i = "window" THEN 50 ELSE 500

----------------------------------------------------------------------------
(* Log entries and backend responses *)

LogEntry(t, r, s) == [timestamp |-> t, raw |-> r, service |-> s]

\* The lines the backend may return: one in the hour before the initial
\* window and one inside it.
LogDomain ==
    { LogEntry(HourMs - 1000, "a", "ai"),
      LogEntry(StartNow - 2000, "a", "base") }

RECURSIVE SeqsUpTo(_, _)
SeqsUpTo(S, n) ==
    IF n = 0 THEN {<<>>}
    ELSE LET shorter == SeqsUpTo(S, n - 1)
         IN  shorter \cup {Append(q, e) : q \in {x \in shorter : Len(x) = n - 1}, e \in S}

\* result.data.logs of a successful response.
Batches == SeqsUpTo(LogDomain, MaxBatch)

\* A response with the logs array b.
Ok(b) == [kind |-> "ok", logs |-> b]

\* What api.fetchLokiLogs can come back with: a thrown Error, a response
\* without data.logs, or a response with a logs array.
Outcomes ==
    {[kind |-> "fail", logs |-> <<>>], [kind |-> "malformed", logs |-> <<>>]}
    \cup {[kind |-> "ok", logs |-> b] : b \in Batches}

----------------------------------------------------------------------------
(* fetchLokiLogs: the merge *)

\* l.timestamp + '|' + l.raw
Key(l) == <<l.timestamp, l.raw>>

\* new Set(lokiLogs.value.map(...))
ExistingKeys(logs) == {Key(logs[i]) : i \in 1..Len(logs)}

\* A filter that lets every line of the response through.
UniqueNewLogsUnfiltered(newLogs, logs) == newLogs

\* newLogs.filter(l => !existingKeys.has(...))
UniqueNewLogs(newLogs, logs) ==
    SelectSeq(newLogs, LAMBDA l : Key(l) \notin ExistingKeys(logs))

\* A merge that keeps the new lines alone.
ConcatReplacing(logs, uniqueNewLogs, prepend) == uniqueNewLogs

\* [...uniqueNewLogs, ...lokiLogs.value] or [...lokiLogs.value, ...uniqueNewLogs]
Concat(logs, uniqueNewLogs, prepend) ==
    IF prepend THEN uniqueNewLogs \o logs ELSE logs \o uniqueNewLogs

\* A merge that leaves the concatenation as it is.
SortSkipped(s) == s

\* lokiLogs.value.sort((a, b) => a.timestamp - b.timestamp): a stable sort,
\* which leaves an array that is in order as it is.
SortByTimestamp(s) ==
    LET n == Len(s)
        \* the place of s[i]: after every entry that compares lower and
        \* after every equal entry that stood before it (as a sequence)
        place == <<>> \o [i \in 1..n |->
                             1 + Cardinality({j \in 1..n :
                                                 \/ s[j].timestamp - s[i].timestamp < 0
                                                 \/ /\ s[j].timestamp - s[i].timestamp = 0
                                                    /\ j < i})]
    IN  IF \A i \in 1..(n - 1) : s[i].timestamp - s[i + 1].timestamp <= 0
        THEN s
        ELSE [k \in 1..n |-> s[CHOOSE i \in 1..n : place[i] = k]]

\* A lower bound that is only ever set on the first merge.
EarliestOnce(sorted, old) ==
    IF Len(sorted) > 0 /\ old = 0 THEN sorted[1].timestamp ELSE old

\* lokiEarliestMs after `if (lokiLogs.value.length > 0) lokiEarliestMs.value = ...`
EarliestOf(sorted, old) ==
    IF Len(sorted) > 0 THEN sorted[1].timestamp ELSE old

\* lokiLatestMs after `if (lokiLogs.value.length > 0) ... lokiLatestMs.value = ...`
LatestOf(sorted, old) ==
    IF Len(sorted) > 0 THEN sorted[Len(sorted)].timestamp ELSE old

\* A count of the lines received rather than of the lines added.
ReceivedCount(newLogs, uniqueNewLogs) == Len(newLogs)

\* return uniqueNewLogs.length
MergedCount(newLogs, uniqueNewLogs) == Len(uniqueNewLogs)

\* A catch that reports the error as a success.
ErrorToastAsSuccess == <<"error.message", "success">>

\* showToast(error.message, 'error')
ErrorToast == <<"error.message", "error">>
SuccessToast == <<"refreshed", "success">>

\* fetchLokiLogs after its await: from the window w = <<logs, earliest,
\* latest, canLoadOlder>> and the outcome of api.fetchLokiLogs to the new
\* window, the returned count and the toasts shown.
FetchLokiLogs(w, outcome, prepend) ==
    LET same(n, t) == [logs |-> w[1], earliest |-> w[2], latest |-> w[3],
                       can |-> w[4], count |-> n, toasts |-> t]
    IN
    IF outcome.kind = "fail" THEN same(0, <<ErrorToast>>)
    ELSE IF outcome.kind = "malformed" THEN same(0, <<>>)
    ELSE IF Len(outcome.logs) = 0
         THEN [same(0, <<>>) EXCEPT !.can = IF prepend THEN FALSE ELSE w[4]]
    ELSE LET uniqueNewLogs == UniqueNewLogs(outcome.logs, w[1])
             sorted == SortByTimestamp(Concat(w[1], uniqueNewLogs, prepend))
         IN  IF Len(uniqueNewLogs) = 0 THEN same(0, <<>>)
             ELSE [logs |-> sorted,
                   earliest |-> EarliestOf(sorted, w[2]),
                   latest |-> LatestOf(sorted, w[3]),
                   can |-> w[4],
                   count |-> MergedCount(outcome.logs, uniqueNewLogs),
                   toasts |-> <<>>]

----------------------------------------------------------------------------
(* The suspended calls *)

InitDirection(i) == IF i = "window" THEN "backward" ELSE "forward"
OlderDirection(i) == IF i = "window" THEN "backward" ELSE "forward"

\* A call suspended at `await fetchLokiLogs(startMs, endMs, direction, prepend)`.
\* via: who awaits the call.
Call(op, startMs, endMs, direction, prepend, via) ==
    [op |-> op, startMs |-> startMs, endMs |-> endMs, limit |-> Limit(impl),
     direction |-> direction, prepend |-> prepend, via |-> via]

\* The operations that fetch.
Ops == {"init", "older", "newer"}

\* How many calls of operation op are suspended.
RECURSIVE SumCopies(_, _)
SumCopies(b, S) ==
    IF S = {} THEN 0
    ELSE LET c == CHOOSE x \in S : TRUE
         IN  CopiesIn(c, b) + SumCopies(b, S \ {c})

Pending(op) == SumCopies(calls, {c \in BagToSet(calls) : c.op = op})

\* What a step lets the page see: for a fetch completion the operation that
\* completed, how its fetch ended ("fail", "malformed", "empty" or "ok"), the
\* number of lines received and the count fetchLokiLogs returned; and the
\* toasts the step showed.  For a call that ends without a fetch: the call
\* and whether it returned at its guard ("dropped") or acted ("done").
Seen(op, outcome, received, count, toasts) ==
    [op |-> op, outcome |-> outcome, received |-> received, count |-> count,
     toasts |-> toasts]

\* The step issues a fetch of operation op.
Issues(op) == Pending(op)' > Pending(op)

\* A step that completes no fetch and shows no toast.
Quiet == Seen("none", "none", 0, 0, <<>>)

\* A call that returned at its guard, having done nothing.
Dropped(op) == Seen(op, "dropped", 0, 0, <<>>)

\* A call that did what it is for, without a fetch.
Done(op) == Seen(op, "done", 0, 0, <<>>)

\* A guard of loadOlderLogs that forgets the exhaustion flag.
OlderGuardNoFlag == lokiLoadingOlder \/ Len(lokiLogs) = 0

\* A guard of loadOlderLogs that forgets the empty store.
OlderGuardNoEmpty == lokiLoadingOlder \/ ~lokiCanLoadOlder

\* if (lokiLoadingOlder.value || !lokiCanLoadOlder.value || lokiLogs.value.length === 0) return;
OlderGuard == lokiLoadingOlder \/ ~lokiCanLoadOlder \/ Len(lokiLogs) = 0

\* A loadNewerLogs without its in-flight guard.
NewerGuardNone == FALSE

\* A loadNewerLogs that also gives up when the last fetch has failed.
NewerGuardAfterFailure == lokiLoadingNewer \/ last.outcome = "fail"

\* if (lokiLoadingNewer.value) return;
NewerGuard == lokiLoadingNewer

\* The fetch loadOlderLogs issues.
OlderCall ==
    LET endMs == lokiEarliestMs - 1
        startMs == endMs - HourMs
    IN  Call("older", startMs, endMs, OlderDirection(impl), TRUE, "direct")

\* The fetch loadNewerLogs issues.  Date.now() is read for endMs, and
\* before that for startMs when lokiLatestMs is 0: first is that earlier
\* reading, now the reading for endMs.
NewerCall(via, first, now) ==
    LET startMs == IF lokiLatestMs > 0 THEN lokiLatestMs + 1 ELSE first - HourMs
        endMs == now
    IN  Call("newer", startMs, endMs, "forward", FALSE, via)

\* The readings a loadNewerLogs called now can make: none behind its
\* guard, one (for endMs) when lokiLatestMs > 0, else two.
Reads ==
    IF lokiLoadingNewer THEN {<<StartNow, StartNow>>}
    ELSE IF lokiLatestMs > 0 THEN {<<r[2], r[2]>> : r \in Clock}
    ELSE Clock

----------------------------------------------------------------------------
(* The filtered view and the scroll container *)

\* Array.prototype.indexOf(svc) > -1, Array.prototype.includes(svc)
Includes(filter, svc) == \E i \in 1..Len(filter) : filter[i] = svc

\* Array.prototype.splice(indexOf(svc), 1): the first occurrence is removed.
Splice(filter, svc) ==
    LET idx == CHOOSE i \in 1..Len(filter) :
                   filter[i] = svc /\ \A j \in 1..(i - 1) : filter[j] # svc
    IN SubSeq(filter, 1, idx - 1) \o SubSeq(filter, idx + 1, Len(filter))

\* computed filteredLokiLogs: the whole store when the filter is as long
\* as the list of services, otherwise the entries whose service it includes.
filteredLokiLogs ==
    IF Len(lokiServiceFilter) = Len(lokiServices)
    THEN lokiLogs
    ELSE SelectSeq(lokiLogs, LAMBDA log : Includes(lokiServiceFilter, log.service))

\* Height of one rendered log line and of the container's viewport.
RowHeight == 100
ClientHeight == 50

\* container.scrollHeight: the rendered view, never less than the viewport.
ViewHeight ==
    LET content == RowHeight * Len(filteredLokiLogs)
    IN IF content > ClientHeight THEN content ELSE ClientHeight

\* An assignment to container.scrollTop is kept within
\* [0, scrollHeight - clientHeight].
Clamp(top, height) ==
    IF top < 0 THEN 0
    ELSE IF top > height - ClientHeight THEN height - ClientHeight
    ELSE top

\* container.scrollTop after scrollLokiToBottom: the exported copy assigns
\* scrollHeight to it when the container is there; the window copy scrolls
\* the page, which holds no state of the panel.
ScrolledToBottom(hasContainer) ==
    IF impl = "export" /\ hasContainer
    THEN Clamp(ViewHeight, ViewHeight)
    ELSE containerScrollTop

\* container.scrollTop after scrollToTop.
ScrolledToTop(hasContainer) ==
    IF impl = "export" /\ hasContainer THEN 0 ELSE containerScrollTop

----------------------------------------------------------------------------
(* Initial state *)

Init ==
    /\ impl \in {"window", "export"}
    /\ lokiLogs = <<>>
    /\ lokiEarliestMs = 0
    /\ lokiLatestMs = 0
    /\ lokiCanLoadOlder = TRUE
    /\ lokiLoading = FALSE
    /\ lokiLoadingOlder = FALSE
    /\ lokiLoadingNewer = FALSE
    /\ lokiAutoScroll = TRUE
    /\ lokiPolling = FALSE
    /\ lokiPollTimer = FALSE
    /\ timers = 0
    /\ calls = EmptyBag
    /\ lokiServiceFilter = lokiServices
    /\ activeTab = "list"
    /\ mounted = TRUE
    /\ containerScrollTop = 0
    /\ prevScrollHeight = 0
    /\ last = Quiet

----------------------------------------------------------------------------
(* Operations *)

\* initLokiLogs up to its await.
InitLokiLogs(now) ==
    /\ Pending("init") < MaxInit
    /\ lokiLoading' = TRUE
    /\ lokiLogs' = <<>>
    /\ lokiCanLoadOlder' = TRUE
    /\ calls' = calls (+) SetToBag({Call("init", now - HourMs, now, InitDirection(impl),
                                         FALSE, "direct")})
    /\ last' = Quiet
    /\ UNCHANGED <<impl, lokiEarliestMs, lokiLatestMs, lokiLoadingOlder,
                   lokiLoadingNewer, lokiAutoScroll, lokiPolling, lokiPollTimer, timers>>

\* loadOlderLogs up to its await, or its early return.  Only the window copy
\* hands loadOlderLogs to the page; the exported copy calls it from
\* handleLokiScroll alone.
LoadOlderLogs ==
    /\ impl = "window"
    /\ IF OlderGuard
       THEN /\ UNCHANGED <<lokiLoadingOlder, calls>>
            /\ last' = Dropped("older")
       ELSE /\ lokiLoadingOlder' = TRUE
            /\ calls' = calls (+) SetToBag({OlderCall})
            /\ last' = Quiet
    /\ UNCHANGED <<impl, lokiLogs, lokiEarliestMs, lokiLatestMs, lokiCanLoadOlder,
                   lokiLoading, lokiLoadingNewer, lokiAutoScroll, lokiPolling,
                   lokiPollTimer, timers>>

\* loadNewerLogs up to its await, or its early return; afterDrop is what
\* the caller has done by the end of the step when the guard returned.
NewerStep(via, first, now, afterDrop) ==
    /\ IF NewerGuard
       THEN /\ last' = afterDrop
            /\ UNCHANGED <<lokiLoadingNewer, calls>>
       ELSE /\ lokiLoadingNewer' = TRUE
            /\ calls' = calls (+) SetToBag({NewerCall(via, first, now)})
            /\ last' = Quiet
    /\ UNCHANGED <<impl, lokiLogs, lokiEarliestMs, lokiLatestMs, lokiCanLoadOlder,
                   lokiLoading, lokiLoadingOlder, lokiAutoScroll, lokiPolling,
                   lokiPollTimer, timers>>

\* loadNewerLogs called by the page.
LoadNewerLogs(first, now) == NewerStep("direct", first, now, Quiet)

\* refreshLokiLogs: awaits loadNewerLogs, then shows the success toast; when
\* loadNewerLogs returns at its guard the toast follows at once.
RefreshLokiLogs(first, now) ==
    NewerStep("refresh", first, now, Seen("none", "none", 0, 0, <<SuccessToast>>))

\* The interval callback set by startLokiPolling.
PollTick(first, now) ==
    /\ timers > 0
    /\ NewerStep("direct", first, now, Quiet)

\* clearLokiLogs
ClearLokiLogs ==
    /\ lokiLogs' = <<>>
    /\ lokiEarliestMs' = 0
    /\ lokiLatestMs' = 0
    /\ lokiCanLoadOlder' = TRUE
    /\ last' = Quiet
    /\ UNCHANGED <<impl, lokiLoading, lokiLoadingOlder, lokiLoadingNewer,
                   lokiAutoScroll, lokiPolling, lokiPollTimer, timers, calls>>

\* A startLokiPolling without its `if (lokiPollTimer) return`.
StartLokiPollingUnguarded ==
    /\ lokiPolling' = TRUE
    /\ lokiPollTimer' = TRUE
    /\ timers' = timers + 1
    /\ last' = Quiet
    /\ UNCHANGED <<impl, lokiLogs, lokiEarliestMs, lokiLatestMs, lokiCanLoadOlder,
                   lokiLoading, lokiLoadingOlder, lokiLoadingNewer, lokiAutoScroll,
                   calls>>

\* startLokiPolling
StartLokiPolling ==
    /\ IF lokiPollTimer
       THEN /\ UNCHANGED <<lokiPolling, lokiPollTimer, timers>>
            /\ last' = Dropped("start")
       ELSE /\ lokiPolling' = TRUE
            /\ lokiPollTimer' = TRUE
            /\ timers' = timers + 1
            /\ last' = Quiet
    /\ UNCHANGED <<impl, lokiLogs, lokiEarliestMs, lokiLatestMs, lokiCanLoadOlder,
                   lokiLoading, lokiLoadingOlder, lokiLoadingNewer, lokiAutoScroll,
                   calls>>

\* A stopLokiPolling that also abandons the loadNewerLogs in flight.
StopLokiPollingCancelling ==
    /\ timers' = IF lokiPollTimer THEN timers - 1 ELSE timers
    /\ lokiPollTimer' = FALSE
    /\ lokiPolling' = FALSE
    /\ calls' = [c \in {x \in DOMAIN calls : x.op # "newer"} |-> calls[c]]
    /\ lokiLoadingNewer' = FALSE
    /\ last' = IF lokiPollTimer THEN Done("stop") ELSE Dropped("stop")
    /\ UNCHANGED <<impl, lokiLogs, lokiEarliestMs, lokiLatestMs, lokiCanLoadOlder,
                   lokiLoading, lokiLoadingOlder, lokiAutoScroll>>

\* stopLokiPolling
StopLokiPolling ==
    /\ timers' = IF lokiPollTimer THEN timers - 1 ELSE timers
    /\ lokiPollTimer' = FALSE
    /\ lokiPolling' = FALSE
    /\ last' = IF lokiPollTimer THEN Done("stop") ELSE Dropped("stop")
    /\ UNCHANGED <<impl, lokiLogs, lokiEarliestMs, lokiLatestMs, lokiCanLoadOlder,
                   lokiLoading, lokiLoadingOlder, lokiLoadingNewer, lokiAutoScroll,
                   calls>>

\* toggleLokiAutoScroll: flips auto-scroll and, when it is now on, calls
\* scrollLokiToBottom.
ToggleLokiAutoScroll(hasContainer) ==
    /\ lokiAutoScroll' = ~lokiAutoScroll
    /\ containerScrollTop' = IF ~lokiAutoScroll
                             THEN ScrolledToBottom(hasContainer)
                             ELSE containerScrollTop
    /\ last' = Quiet
    /\ UNCHANGED <<impl, lokiLogs, lokiEarliestMs, lokiLatestMs, lokiCanLoadOlder,
                   lokiLoading, lokiLoadingOlder, lokiLoadingNewer, lokiPolling,
                   lokiPollTimer, timers, calls, lokiServiceFilter, activeTab, mounted,
                   prevScrollHeight>>

\* scrollToTop
ScrollToTop(hasContainer) ==
    /\ containerScrollTop' = ScrolledToTop(hasContainer)
    /\ last' = Quiet
    /\ UNCHANGED <<engine, impl, lokiServiceFilter, activeTab, mounted, prevScrollHeight>>

\* handleLokiScroll with the container's scrollTop, scrollHeight and
\* clientHeight.  The window copy's handler is empty.  The exported copy sets
\* auto-scroll, then calls loadNewerLogs and loadOlderLogs behind its own
\* conditions; each call then runs its own guard.
HandleLokiScroll(hasContainer, scrollTop, scrollHeight, clientHeight, first, now) ==
    LET atBottom == scrollHeight - scrollTop - clientHeight < BottomThreshold
        newer == atBottom /\ ~lokiLoadingNewer /\ ~NewerGuard
        older == scrollTop < TopThreshold /\ ~lokiLoadingOlder /\ lokiCanLoadOlder
                 /\ ~OlderGuard
    IN
    /\ IF impl = "window" \/ ~hasContainer
       THEN UNCHANGED <<lokiAutoScroll, lokiLoadingNewer, lokiLoadingOlder, calls>>
       ELSE /\ lokiAutoScroll' = atBottom
            /\ lokiLoadingNewer' = (lokiLoadingNewer \/ newer)
            /\ lokiLoadingOlder' = (lokiLoadingOlder \/ older)
            /\ calls' = calls (+) SetToBag(IF newer THEN {NewerCall("direct", first, now)} ELSE {})
                              (+) SetToBag(IF older THEN {OlderCall} ELSE {})
    /\ last' = Quiet
    /\ UNCHANGED <<impl, lokiLogs, lokiEarliestMs, lokiLatestMs, lokiCanLoadOlder,
                   lokiLoading, lokiPolling, lokiPollTimer, timers>>

\* The caller's code after `await fetchLokiLogs(...)`: canLoadOlder after
\* loadOlderLogs' `if (count === 0)`.
OlderEpilogue(can, count) == IF count = 0 THEN FALSE ELSE can

\* A completion in which a failed fetch throws out of the operation, so
\* that the lines after the await are not run.
FetchReturnThrowing(c, outcome) ==
    /\ calls' = calls (-) SetToBag({c})
    /\ UNCHANGED <<impl, lokiAutoScroll, lokiPolling, lokiPollTimer, timers>>
    /\ \E r \in {FetchLokiLogs(window, outcome, c.prepend)} :
       /\ lokiLogs' = r.logs
       /\ lokiEarliestMs' = r.earliest
       /\ lokiLatestMs' = r.latest
       /\ lokiCanLoadOlder' = IF c.op = "older" THEN OlderEpilogue(r.can, r.count) ELSE r.can
       /\ lokiLoading' = IF c.op = "init" /\ outcome.kind # "fail" THEN FALSE ELSE lokiLoading
       /\ lokiLoadingOlder' = IF c.op = "older" /\ outcome.kind # "fail" THEN FALSE ELSE lokiLoadingOlder
       /\ lokiLoadingNewer' = IF c.op = "newer" /\ outcome.kind # "fail" THEN FALSE ELSE lokiLoadingNewer
       /\ last' = Seen(c.op,
                        IF outcome.kind = "ok" /\ Len(outcome.logs) = 0
                        THEN "empty" ELSE outcome.kind,
                        Len(outcome.logs),
                        r.count,
                        r.toasts \o (IF c.via = "refresh" THEN <<SuccessToast>> ELSE <<>>))

\* The fetch of the suspended call c completes with outcome: fetchLokiLogs'
\* merge, then the rest of the operation that awaited it.
FetchReturn(c, outcome) ==
    /\ calls' = calls (-) SetToBag({c})
    /\ UNCHANGED <<impl, lokiAutoScroll, lokiPolling, lokiPollTimer, timers>>
    /\ \E r \in {FetchLokiLogs(window, outcome, c.prepend)} :
       /\ lokiLogs' = r.logs
       /\ lokiEarliestMs' = r.earliest
       /\ lokiLatestMs' = r.latest
       /\ lokiCanLoadOlder' = IF c.op = "older" THEN OlderEpilogue(r.can, r.count) ELSE r.can
       /\ lokiLoading' = IF c.op = "init" THEN FALSE ELSE lokiLoading
       /\ lokiLoadingOlder' = IF c.op = "older" THEN FALSE ELSE lokiLoadingOlder
       /\ lokiLoadingNewer' = IF c.op = "newer" THEN FALSE ELSE lokiLoadingNewer
       /\ last' = Seen(c.op,
                        IF outcome.kind = "ok" /\ Len(outcome.logs) = 0
                        THEN "empty" ELSE outcome.kind,
                        Len(outcome.logs),
                        r.count,
                        r.toasts \o (IF c.via = "refresh" THEN <<SuccessToast>> ELSE <<>>))

\* The container geometries a scroll event may report: content that fits
\* the container (at the top and at the bottom at once), and longer content
\* scrolled to the top, to the top threshold, and to the bottom.
ScrollTops == {0, TopThreshold, 600}
ScrollHeights == {400, 1000}
ClientHeights == {400}

\* A scroll event on the log container; the browser keeps scrollTop within
\* [0, scrollHeight - clientHeight].  Without a container the handler
\* returns before it reads anything.
Scroll ==
    \/ \E scrollTop \in ScrollTops, scrollHeight \in ScrollHeights,
          clientHeight \in ClientHeights, r \in Reads :
          /\ scrollTop <= scrollHeight - clientHeight
          /\ HandleLokiScroll(TRUE, scrollTop, scrollHeight, clientHeight, r[1], r[2])
    \/ HandleLokiScroll(FALSE, 0, 0, 0, StartNow, StartNow)

\* The backend answers one of the outstanding fetches.
Return == \E c \in BagToSet(calls), outcome \in Outcomes : FetchReturn(c, outcome)

Next ==
    \/ \E now \in Nows : InitLokiLogs(now) /\ UNCHANGED page
    \/ LoadOlderLogs /\ UNCHANGED page
    \/ \E r \in Reads : LoadNewerLogs(r[1], r[2]) /\ UNCHANGED page
    \/ \E r \in Reads : RefreshLokiLogs(r[1], r[2]) /\ UNCHANGED page
    \/ \E r \in Reads : PollTick(r[1], r[2]) /\ UNCHANGED page
    \/ ClearLokiLogs /\ UNCHANGED page
    \/ StartLokiPolling /\ UNCHANGED page
    \/ StopLokiPolling /\ UNCHANGED page
    \/ Scroll /\ UNCHANGED page
    \/ Return /\ UNCHANGED page

Spec == Init /\ [][Next]_vars

----------------------------------------------------------------------------
(* Scheduling: every issued fetch completes, and a set interval fires *)

\* The ways a fetch can end, with at most one line in a response: how a
\* call resumes does not depend on how many lines came back.
LiveOutcomes == {o \in Outcomes : Len(o.logs) <= 1}

\* The backend answers an outstanding fetch of operation op.
ReturnOf(op) ==
    \E c \in BagToSet(calls), outcome \in LiveOutcomes :
        c.op = op /\ FetchReturn(c, outcome) /\ UNCHANGED page

NextLive ==
    \/ \E now \in Nows : InitLokiLogs(now) /\ UNCHANGED page
    \/ LoadOlderLogs /\ UNCHANGED page
    \/ \E r \in Reads : LoadNewerLogs(r[1], r[2]) /\ UNCHANGED page
    \/ \E r \in Reads : RefreshLokiLogs(r[1], r[2]) /\ UNCHANGED page
    \/ \E r \in Reads : PollTick(r[1], r[2]) /\ UNCHANGED page
    \/ ClearLokiLogs /\ UNCHANGED page
    \/ StartLokiPolling /\ UNCHANGED page
    \/ StopLokiPolling /\ UNCHANGED page
    \/ Scroll /\ UNCHANGED page
    \/ \E op \in Ops : ReturnOf(op)

\* The promise of each issued fetch is eventually settled, and while an
\* interval timer is set its callback is eventually run.
Fairness ==
    /\ \A op \in Ops : WF_vars(ReturnOf(op))
    /\ WF_vars(\E r \in Reads : PollTick(r[1], r[2]) /\ UNCHANGED page)

SpecLive == Init /\ [][NextLive]_vars /\ Fairness

----------------------------------------------------------------------------
(* The scroll container of the logs panel *)

\* Offsets the user scrolls to: the top, inside the top threshold, at it,
\* and further down.
Offsets == {0, 10, TopThreshold, 150}

\* The user scrolls the container and handleLokiScroll runs; a
\* loadOlderLogs it starts records container.scrollHeight before its fetch.
\* The window copy's handler does nothing, and the offset moves all the same.
ContainerScroll ==
    \E top \in Offsets, r \in Reads :
       /\ top <= ViewHeight - ClientHeight
       /\ HandleLokiScroll(TRUE, top, ViewHeight, ClientHeight, r[1], r[2])
       /\ containerScrollTop' = top
       /\ prevScrollHeight' = IF Issues("older") THEN ViewHeight ELSE prevScrollHeight
       /\ UNCHANGED <<lokiServiceFilter, activeTab, mounted>>

\* A fetch completes, the view is rendered, and the operation's nextTick
\* callback runs.  In the exported copy loadOlderLogs sets scrollTop to the
\* new scrollHeight less the recorded one, initLokiLogs scrolls to the
\* bottom, loadNewerLogs scrolls to the bottom when it added entries and
\* auto-scroll is on; the window copy scrolls the page and leaves the
\* container where it is.  Without a container nothing is scrolled.
ContainerReturn(c, outcome, hasContainer) ==
    /\ FetchReturn(c, outcome)
    /\ UNCHANGED <<lokiServiceFilter, activeTab, mounted, prevScrollHeight>>
    /\ containerScrollTop' =
           IF ~hasContainer
           THEN containerScrollTop
           ELSE IF impl = "export" /\ c.op = "older"
           THEN Clamp(ViewHeight' - prevScrollHeight, ViewHeight')
           ELSE IF impl = "export"
                   /\ (c.op = "init" \/ (last'.count > 0 /\ lokiAutoScroll))
           THEN Clamp(ViewHeight', ViewHeight')
           ELSE Clamp(containerScrollTop, ViewHeight')

\* initLokiLogs and clearLokiLogs empty the view.
ContainerInit ==
    \E now \in Nows :
       /\ InitLokiLogs(now)
       /\ containerScrollTop' = 0
       /\ UNCHANGED <<lokiServiceFilter, activeTab, mounted, prevScrollHeight>>

ContainerClear ==
    /\ ClearLokiLogs
    /\ containerScrollTop' = 0
    /\ UNCHANGED <<lokiServiceFilter, activeTab, mounted, prevScrollHeight>>

\* The logs panel with its container rendered.
NextScroll ==
    \/ ContainerInit
    \/ ContainerClear
    \/ ContainerScroll
    \/ ToggleLokiAutoScroll(TRUE)
    \/ ScrollToTop(TRUE)
    \/ \E c \in BagToSet(calls), outcome \in Outcomes : ContainerReturn(c, outcome, TRUE)

SpecScroll == Init /\ [][NextScroll]_vars

----------------------------------------------------------------------------
(* The app around the engine: tabs and teardown *)

Tabs == {"list", "logs"}

\* switchTab(tab): sets the active tab; for the logs tab calls initLokiLogs
\* when the store is empty and then startLokiPolling, for any other tab
\* stopLokiPolling.
SwitchTab(tab, now) ==
    LET toLogs == tab = "logs"
        inits == toLogs /\ Len(lokiLogs) = 0
        starts == toLogs /\ ~lokiPollTimer
    IN
    /\ mounted
    /\ inits => Pending("init") < MaxInit
    /\ activeTab' = tab
    /\ lokiLoading' = (lokiLoading \/ inits)
    /\ lokiLogs' = IF inits THEN <<>> ELSE lokiLogs
    /\ lokiCanLoadOlder' = (lokiCanLoadOlder \/ inits)
    /\ calls' = calls (+) SetToBag(IF inits
                                    THEN {Call("init", now - HourMs, now,
                                               InitDirection(impl), FALSE, "direct")}
                                    ELSE {})
    /\ lokiPolling' = toLogs
    /\ lokiPollTimer' = toLogs
    /\ timers' = IF starts THEN timers + 1
                 ELSE IF ~toLogs /\ lokiPollTimer THEN timers - 1
                 ELSE timers
    /\ last' = Quiet
    /\ UNCHANGED <<impl, lokiEarliestMs, lokiLatestMs, lokiLoadingOlder, lokiLoadingNewer,
                   lokiAutoScroll, lokiServiceFilter, mounted, containerScrollTop,
                   prevScrollHeight>>

\* A teardown that leaves the poller alone.
UnmountedWithoutStop ==
    /\ mounted
    /\ mounted' = FALSE
    /\ last' = Quiet
    /\ UNCHANGED <<engine, impl, lokiServiceFilter, activeTab, containerScrollTop,
                   prevScrollHeight>>

\* onUnmounted: stopLokiPolling.
Unmounted ==
    /\ mounted
    /\ mounted' = FALSE
    /\ StopLokiPolling
    /\ UNCHANGED <<lokiServiceFilter, activeTab, containerScrollTop, prevScrollHeight>>

\* The page calls the engine only while the app is mounted; an interval
\* that is set fires, and a fetch that was issued returns, either way.  The
\* container is rendered with the panel and gone with the app.
NextApp ==
    \/ \E tab \in Tabs, now \in Nows : SwitchTab(tab, now)
    \/ Unmounted
    \/ mounted /\ (\E r \in Reads : LoadNewerLogs(r[1], r[2])) /\ UNCHANGED page
    \/ mounted /\ ContainerClear
    \/ mounted /\ ContainerScroll
    \/ mounted /\ \E hasContainer \in BOOLEAN : ToggleLokiAutoScroll(hasContainer)
    \/ mounted /\ \E hasContainer \in BOOLEAN : ScrollToTop(hasContainer)
    \/ \E r \in Reads : PollTick(r[1], r[2]) /\ UNCHANGED page
    \/ \E c \in BagToSet(calls), outcome \in LiveOutcomes, hasContainer \in BOOLEAN :
          (hasContainer => mounted) /\ ContainerReturn(c, outcome, hasContainer)

SpecApp == Init /\ [][NextApp]_vars

----------------------------------------------------------------------------
(* The service filter *)

\* A toggle that removes the last remaining service as well.
ToggleServiceFilterToEmpty(svc) ==
    /\ lokiServiceFilter' = IF Includes(lokiServiceFilter, svc)
                            THEN Splice(lokiServiceFilter, svc)
                            ELSE Append(lokiServiceFilter, svc)
    /\ last' = Quiet
    /\ UNCHANGED <<engine, impl, activeTab, mounted, containerScrollTop, prevScrollHeight>>

\* toggleServiceFilter(svc)
ToggleServiceFilter(svc) ==
    /\ lokiServiceFilter' = IF Includes(lokiServiceFilter, svc)
                            THEN IF Len(lokiServiceFilter) > 1
                                 THEN Splice(lokiServiceFilter, svc)
                                 ELSE lokiServiceFilter
                            ELSE Append(lokiServiceFilter, svc)
    /\ last' = Quiet
    /\ UNCHANGED <<engine, impl, activeTab, mounted, containerScrollTop, prevScrollHeight>>

\* The services the page offers for toggling.
Services == {lokiServices[i] : i \in 1..Len(lokiServices)}

\* The logs panel with its filter buttons: loads, a clear, and toggles.
NextFilter ==
    \/ \E svc \in Services : ToggleServiceFilter(svc)
    \/ \E now \in Nows : InitLokiLogs(now) /\ UNCHANGED page
    \/ \E r \in Reads : LoadNewerLogs(r[1], r[2]) /\ UNCHANGED page
    \/ ClearLokiLogs /\ UNCHANGED page
    \/ \E op \in Ops : ReturnOf(op)

SpecFilter == Init /\ [][NextFilter]_vars

----------------------------------------------------------------------------
(* A session against a backend whose lines do not change *)

\* The backend holds two lines more than the window copy asks for per
\* fetch, all within the hour before StartNow: the oldest alone, the next
\* two with one timestamp, the others following one millisecond apart.
BackendCount == Limit("window") + 2
BackendTimestamp(i) ==
    StartNow - 60000 + (IF i = 1 THEN -1 ELSE IF i <= 3 THEN 0 ELSE i - 3)
BackendLine(i) == LogEntry(BackendTimestamp(i), ToString(i), "base")

\* GET /loki/logs?start_ms&end_ms&limit&direction: of the lines within
\* [startMs, endMs] the earliest `limit` (forward) or the latest `limit`
\* (backward).
BackendFetch(startMs, endMs, limit, direction) ==
    LET inRange == {i \in 1..BackendCount :
                       startMs <= BackendTimestamp(i) /\ BackendTimestamp(i) <= endMs}
        lo == CHOOSE i \in inRange : \A j \in inRange : i <= j
        hi == CHOOSE i \in inRange : \A j \in inRange : j <= i
        n == IF hi - lo + 1 < limit THEN hi - lo + 1 ELSE limit
        first == IF direction = "forward" THEN lo ELSE hi - n + 1
    IN  IF inRange = {} THEN <<>>
        ELSE [k \in 1..n |-> BackendLine(first + k - 1)]

\* The backend answers one of the outstanding fetches with its lines.
ReturnFixed ==
    \E c \in BagToSet(calls) :
        FetchReturn(c, Ok(BackendFetch(c.startMs, c.endMs, c.limit, c.direction)))

NextFixed ==
    \/ \E now \in Nows : InitLokiLogs(now) /\ UNCHANGED page
    \/ LoadOlderLogs /\ UNCHANGED page
    \/ \E r \in Reads : LoadNewerLogs(r[1], r[2]) /\ UNCHANGED page
    \/ ClearLokiLogs /\ UNCHANGED page
    \/ Scroll /\ UNCHANGED page
    \/ ReturnFixed /\ UNCHANGED page

SpecFixed == Init /\ [][NextFixed]_vars

----------------------------------------------------------------------------
(* What the properties below speak of *)

\* The step completes a fetch of operation op that ended as outcome.
Completed(op, outcome) == last'.op = op /\ last'.outcome = outcome

\* The window after fetchLokiLogs has merged batch b into window w.
Merged(w, b, prepend) ==
    LET r == FetchLokiLogs(w, Ok(b), prepend)
    IN  <<r.logs, r.earliest, r.latest, r.can>>

----------------------------------------------------------------------------
(* C1 *)

\* C1: in every reachable state the store's entries are non-decreasing by
\* timestamp.
C1_SortedByTimestamp ==
    \A i \in 1..(Len(lokiLogs) - 1) :
        lokiLogs[i].timestamp <= lokiLogs[i + 1].timestamp

\* A merge has just added entries to a store that holds two timestamps.
C1_Witness ==
    /\ last.outcome = "ok" /\ last.count > 0
    /\ Len(lokiLogs) >= 2
    /\ lokiLogs[1].timestamp < lokiLogs[Len(lokiLogs)].timestamp

(* C2 *)

\* C2: in every reachable state no two entries of the store have the same
\* identity key (timestamp, raw).
C2_NoDuplicateKeys ==
    \A i, j \in 1..Len(lokiLogs) :
        i # j => Key(lokiLogs[i]) # Key(lokiLogs[j])

(* C3 *)

\* C3: the completion of a failed fetch, in any of the three operations,
\* leaves the entry sequence, earliestMs, latestMs and canLoadOlder as they
\* were.
C3_FailureIsolation ==
    [][\A op \in Ops : Completed(op, "fail") => UNCHANGED window]_vars

(* C4 *)

\* C4: canLoadOlder goes from true to false only when a loadOlder call
\* completes with a successful fetch that returned an empty logs list.
C4_OnlyEmptyResultExhausts ==
    [][(lokiCanLoadOlder /\ ~lokiCanLoadOlder') => Completed("older", "empty")]_vars

(* C5 *)

\* C5: a loadOlder fetch that returns an empty list leaves canLoadOlder
\* false; while canLoadOlder is false no step issues a loadOlder fetch; and
\* canLoadOlder becomes true again only by clearLokiLogs or initLokiLogs.
C5_ExhaustionHolds ==
    [][/\ Completed("older", "empty") => ~lokiCanLoadOlder'
       /\ ~lokiCanLoadOlder => Pending("older")' <= Pending("older")
       /\ (~lokiCanLoadOlder /\ lokiCanLoadOlder') =>
              (ClearLokiLogs \/ \E now \in Nows : InitLokiLogs(now))]_vars

\* A loadOlder fetch has just returned an empty list to a non-empty store.
C5_Witness ==
    /\ last.op = "older" /\ last.outcome = "empty"
    /\ ~lokiCanLoadOlder
    /\ Len(lokiLogs) > 0

(* C6 *)

\* C6: in every reachable state at most one loadOlder fetch and at most one
\* loadNewer fetch is outstanding, and each in-flight flag is set exactly
\* while its fetch is outstanding.
C6_OneFetchPerDirection ==
    /\ Pending("older") <= 1
    /\ Pending("newer") <= 1
    /\ lokiLoadingOlder <=> Pending("older") = 1
    /\ lokiLoadingNewer <=> Pending("newer") = 1

\* A refresh has just been turned away by the guard while the fetches of
\* both directions are outstanding.
C6_Witness ==
    /\ Pending("older") = 1 /\ Pending("newer") = 1
    /\ last = Seen("none", "none", 0, 0, <<SuccessToast>>)

(* C7 *)

\* C7: whenever the store is non-empty, earliestMs is the least timestamp
\* in it, which is the first entry's, and latestMs the greatest, the last
\* entry's.
C7_BoundsAreMinMax ==
    Len(lokiLogs) > 0 =>
        /\ lokiEarliestMs = lokiLogs[1].timestamp
        /\ lokiLatestMs = lokiLogs[Len(lokiLogs)].timestamp
        /\ \A i \in 1..Len(lokiLogs) :
               /\ lokiEarliestMs <= lokiLogs[i].timestamp
               /\ lokiLogs[i].timestamp <= lokiLatestMs

\* A merge has just left the store with two different bounds.
C7_Witness ==
    /\ last.outcome = "ok" /\ last.count > 0
    /\ Len(lokiLogs) >= 2
    /\ lokiEarliestMs < lokiLatestMs

(* C8 *)

\* C8: whenever the store is empty, earliestMs and latestMs are both zero.
C8_EmptyMeansZeroBounds ==
    Len(lokiLogs) = 0 => lokiEarliestMs = 0 /\ lokiLatestMs = 0

(* C9 *)

\* C9: from every reachable window and for every batch, prepended or
\* appended, merging the batch a second time adds nothing: the second merge
\* returns 0 and leaves the entry sequence, earliestMs and latestMs as the
\* first merge left them.
C9_MergeIdempotent ==
    \A b \in Batches, prepend \in BOOLEAN :
        LET once == Merged(window, b, prepend)
            again == FetchLokiLogs(once, Ok(b), prepend)
        IN  /\ again.count = 0
            /\ again.logs = once[1]
            /\ again.earliest = once[2]
            /\ again.latest = once[3]

\* A response all of whose lines the store already held has just been
\* merged and returned 0.
C9_Witness ==
    /\ last.outcome = "ok" /\ last.count = 0
    /\ Len(lokiLogs) > 0

(* C10 *)

\* The lines of batch b whose key the store does not hold.
NewIn(b) == {i \in 1..Len(b) : \A j \in 1..Len(lokiLogs) : Key(lokiLogs[j]) # Key(b[i])}

\* C10: the count a loadNewer call returns is the number of entries its
\* merge added to the store (the length after minus the length before); it
\* is 0 when the fetch failed; and for every batch a loadNewer fetch may
\* bring it is the number of lines of the batch not yet in the store, so 0
\* when all are present.
C10_NewerReturnsAdded ==
    /\ [][last'.op = "newer" =>
             /\ last'.count = Len(lokiLogs') - Len(lokiLogs)
             /\ last'.outcome = "fail" => last'.count = 0]_vars
    /\ [](\A b \in Batches :
             FetchLokiLogs(window, Ok(b), FALSE).count = Cardinality(NewIn(b)))

\* A loadNewer has just received two lines, one of them already in the
\* store, added the other and returned 1.
C10_Witness ==
    /\ last.op = "newer" /\ last.outcome = "ok"
    /\ last.received = 2 /\ last.count = 1
    /\ Len(lokiLogs) = 2
    /\ lokiLogs[1] # lokiLogs[2]

(* C11 *)

\* The fetch initLokiLogs issues when called at time now.
InitCall(now) == Call("init", now - HourMs, now, InitDirection(impl), FALSE, "direct")

\* An initLokiLogs called with nothing outstanding is now awaiting its
\* fetch: the store has been cleared and its fetch is the only one in flight.
InitAlone ==
    /\ \E now \in Nows : calls = SetToBag({InitCall(now)})
    /\ lokiLoading
    /\ Len(lokiLogs) = 0
    /\ lokiCanLoadOlder

\* The entries of a sequence, as a set.
Entries(s) == {s[i] : i \in 1..Len(s)}

\* C11: an initLokiLogs called at time now with nothing outstanding issues
\* exactly one fetch, over [now - 3600000, now]; and whatever non-empty
\* batch that fetch returns, the store afterwards holds exactly the
\* batch's entries, each once and sorted by timestamp, earliestMs and
\* latestMs are the least and greatest timestamp of the batch and
\* canLoadOlder is true.
C11_InitialLoadReplaces ==
    /\ [][(calls = EmptyBag /\ Pending("init")' > 0) =>
             \E now \in Nows : calls' = SetToBag({InitCall(now)})]_vars
    /\ [](InitAlone =>
             \A b \in Batches \ {<<>>} :
                 LET r == FetchLokiLogs(window, Ok(b), FALSE)
                 IN  /\ Entries(r.logs) = Entries(b)
                     /\ \A i, j \in 1..Len(r.logs) : i # j => Key(r.logs[i]) # Key(r.logs[j])
                     /\ \A i \in 1..(Len(r.logs) - 1) :
                            r.logs[i].timestamp <= r.logs[i + 1].timestamp
                     /\ \A e \in Entries(b) :
                            r.earliest <= e.timestamp /\ e.timestamp <= r.latest
                     /\ \E e \in Entries(b) : r.earliest = e.timestamp
                     /\ \E e \in Entries(b) : r.latest = e.timestamp
                     /\ r.can)

(* C12 *)

\* How many of the toasts carry the error's message with type 'error'.
ErrorToasts(toasts) ==
    Cardinality({i \in 1..Len(toasts) : toasts[i] = <<"error.message", "error">>})

\* The in-flight flag of operation op.
LoadingFlag(op) ==
    IF op = "init" THEN lokiLoading
    ELSE IF op = "older" THEN lokiLoadingOlder
    ELSE lokiLoadingNewer

\* C12: the completion of a failed fetch, in any of the three operations,
\* shows exactly one toast with the error's message and type 'error'; the
\* operation runs to its end (its call is no longer suspended and its
\* in-flight flag is released); and it ends as when nothing was added: the
\* count is 0 and the entries are as they were.
C12_FailureToastsOnce ==
    [][\A op \in Ops : Completed(op, "fail") =>
          /\ ErrorToasts(last'.toasts) = 1
          /\ Pending(op)' = Pending(op) - 1
          /\ ~LoadingFlag(op)'
          /\ last'.count = 0
          /\ lokiLogs' = lokiLogs]_vars

\* The fetch of a refresh has just failed over a non-empty store: the
\* error toast is followed by the refresh's own toast.
C12_Witness ==
    /\ last.op = "newer" /\ last.outcome = "fail"
    /\ Len(last.toasts) = 2
    /\ Len(lokiLogs) > 0

(* C13 *)

\* C13: in every reachable state at most one interval timer is live, and
\* lokiPolling is true exactly when one is (and then lokiPollTimer holds
\* it); startLokiPolling with a timer running sets no timer and changes
\* nothing; stopLokiPolling leaves no timer live, and with no timer running
\* it changes nothing.
C13_OnePollTimer ==
    /\ [](/\ timers <= 1
          /\ lokiPolling <=> timers = 1
          /\ lokiPollTimer <=> timers = 1)
    /\ [][/\ (timers > 0 /\ StartLokiPolling) => UNCHANGED engine
          /\ StopLokiPolling => timers' = 0
          /\ (timers = 0 /\ StopLokiPolling) => UNCHANGED engine]_vars

\* startLokiPolling has just been called while the poller was running.
C13_Witness ==
    /\ last = Dropped("start")
    /\ timers = 1
    /\ lokiPolling

(* C14 *)

\* C14: in both copies of the engine, a step in which loadOlderLogs passes
\* its guard issues exactly one fetch, with endMs = earliestMs - 1,
\* startMs = endMs - 3600000 and direction backward, to be merged with
\* prepend.
C14_OlderFetchesBackward ==
    [][Issues("older") =>
          /\ Pending("older")' = Pending("older") + 1
          /\ \A c \in BagToSet(calls') :
                 c.op = "older" =>
                     /\ c.endMs = lokiEarliestMs - 1
                     /\ c.startMs = c.endMs - HourMs
                     /\ c.direction = "backward"
                     /\ c.prepend]_vars

(* C15 *)

\* C15: a step in which loadNewerLogs passes its guard issues exactly one
\* fetch, forward and without prepend, with endMs = now, and with
\* startMs = latestMs + 1 when the store holds entries and
\* startMs = now - 3600000 when it holds none; now is what Date.now()
\* returned where the call read it, for startMs and then for endMs.
C15_NewerFetchesFromLatest ==
    [][Issues("newer") =>
          /\ Pending("newer")' = Pending("newer") + 1
          /\ \A c \in BagToSet(calls') :
                 c.op = "newer" =>
                     /\ c.direction = "forward"
                     /\ ~c.prepend
                     /\ \E r \in Clock :
                            /\ c.endMs = r[2]
                            /\ c.startMs = IF Len(lokiLogs) > 0
                                           THEN lokiLatestMs + 1
                                           ELSE r[1] - HourMs]_vars

(* C16 *)

\* C16: against a backend whose lines do not change and with no fetch
\* failing, in every reachable state every backend line whose timestamp
\* lies within [earliestMs, latestMs] is in the store.
C16_WindowContiguous ==
    \A i \in 1..BackendCount :
        (lokiEarliestMs <= BackendTimestamp(i) /\ BackendTimestamp(i) <= lokiLatestMs)
            => BackendLine(i) \in Entries(lokiLogs)

(* C17 *)

\* C17: every step other than clearLokiLogs and the clearing step of
\* initLokiLogs leaves every entry of the store in the store: the store
\* afterwards is no shorter and holds every entry it held.
C17_StoreNeverShrinks ==
    [][\/ /\ Len(lokiLogs') >= Len(lokiLogs)
          /\ Entries(lokiLogs) \subseteq Entries(lokiLogs')
       \/ ClearLokiLogs
       \/ \E now \in Nows : InitLokiLogs(now)]_vars

\* A merge has just added entries to a store that held some, and the
\* store holds more than was added.
C17_Witness ==
    /\ last.outcome = "ok" /\ last.count > 0
    /\ Len(lokiLogs) > last.count

(* C18 *)

\* C18: while the store is empty, canLoadOlder is false or an older-load
\* is in flight, no step issues a loadOlder fetch; a loadOlderLogs call
\* (a step that completes no fetch) changes nothing at all; and a scroll
\* event, through which the exported
\* copy calls loadOlderLogs, leaves the entries, earliestMs, latestMs,
\* canLoadOlder, lokiLoading and lokiLoadingOlder as they were.
C18_GuardedOlderIsNoOp ==
    [][(Len(lokiLogs) = 0 \/ ~lokiCanLoadOlder \/ lokiLoadingOlder) =>
          /\ ~Issues("older")
          /\ (last'.op \notin Ops /\ LoadOlderLogs) => UNCHANGED engine
          /\ (last'.op \notin Ops /\ Scroll) =>
                 UNCHANGED <<window, lokiLoading, lokiLoadingOlder>>]_vars

\* loadOlderLogs has just been called on a store whose history is
\* exhausted, with no older-load in flight.
C18_Witness ==
    /\ last = Dropped("older")
    /\ Len(lokiLogs) > 0
    /\ ~lokiCanLoadOlder
    /\ ~lokiLoadingOlder

(* C19 *)

\* C19: the completion of a failed loadNewer fetch leaves the interval
\* timer running (the timer, its handle and lokiPolling are as they were)
\* and shows exactly one error toast; and every tick of the timer that
\* finds no newer-load in flight issues a loadNewer fetch, whatever has
\* failed before.
C19_FailuresKeepPolling ==
    [][/\ Completed("newer", "fail") =>
              /\ UNCHANGED <<timers, lokiPollTimer, lokiPolling>>
              /\ ErrorToasts(last'.toasts) = 1
       /\ (/\ last'.op \notin Ops
           /\ ~lokiLoadingNewer
           /\ \E r \in Reads : PollTick(r[1], r[2])) => Issues("newer")]_vars

\* A loadNewer fetch has just failed with its one error toast while the
\* poller runs, and nothing is in flight to hold back the next tick.
C19_Witness ==
    /\ last.op = "newer" /\ last.outcome = "fail"
    /\ last.toasts = <<<<"error.message", "error">>>>
    /\ timers = 1 /\ lokiPolling
    /\ ~lokiLoadingNewer

(* C20 *)

\* C20: stopLokiPolling leaves no timer live and leaves the suspended
\* calls, the in-flight flags and the window as they were; with no timer
\* live no step is a tick of the poller; and a loadNewer fetch that
\* completes while the poller is stopped is merged as any other (the
\* store becomes the merge of the response's lines, all of which it then
\* holds, and the count is the growth of the store) and releases
\* lokiLoadingNewer.
C20_StopKeepsFetchInFlight ==
    [][/\ last'.op = "stop" =>
              /\ timers' = 0
              /\ UNCHANGED <<calls, window, lokiLoading, lokiLoadingOlder,
                             lokiLoadingNewer>>
       /\ (timers = 0 /\ last'.op \notin Ops) => ~(\E r \in Reads : PollTick(r[1], r[2]))
       /\ (timers = 0 /\ last'.op = "newer") =>
              /\ ~lokiLoadingNewer'
              /\ Pending("newer")' = Pending("newer") - 1
              /\ last'.count = Len(lokiLogs') - Len(lokiLogs)
              /\ last'.outcome = "ok" =>
                     \E b \in Batches :
                         /\ Len(b) = last'.received
                         /\ lokiLogs' = FetchLokiLogs(window, Ok(b), FALSE).logs
                         /\ Entries(b) \subseteq Entries(lokiLogs')]_vars

\* stopLokiPolling has just cancelled the timer while a loadNewer fetch is
\* in flight: the fetch is still outstanding and its flag still set.
C20_Witness ==
    /\ last = Done("stop")
    /\ timers = 0
    /\ lokiLoadingNewer
    /\ Pending("newer") = 1

(* C26 *)

\* C26: in every reachable state in which an initLokiLogs fetch is
\* outstanding, lokiLoading is true.
C26_LoadingWhileInitPending == Pending("init") > 0 => lokiLoading

(* C27 *)

\* How many of the toasts are the refresh's success toast.
SuccessToasts(toasts) ==
    Cardinality({i \in 1..Len(toasts) : toasts[i] = <<"refreshed", "success">>})

\* C27: a step shows the refresh's success toast only when it completes
\* a loadNewer fetch that succeeded: none when the fetch failed, and none
\* when the step completes no fetch (the call was dropped by the guard).
C27_RefreshToastOnlyOnSuccess ==
    [][SuccessToasts(last'.toasts) > 0 =>
          /\ last'.op = "newer"
          /\ last'.outcome \in {"ok", "empty"}]_vars

(* C24 *)

\* C24: results of operations started before a clear or a re-initialization
\* are not applied to the new window.  loadOlderLogs starts no fetch on an
\* empty store, so a loadOlder fetch that completes while the store is
\* empty was started before the store was emptied: its completion leaves
\* the store empty and canLoadOlder as it was.
C24_StaleResultsDiscarded ==
    [][(Len(lokiLogs) = 0 /\ last'.op = "older") =>
          /\ Len(lokiLogs') = 0
          /\ lokiCanLoadOlder' = lokiCanLoadOlder]_vars

(* C23 *)

\* The window after the fetch of the suspended call c has returned batch b
\* to window w: the merge, then the caller's epilogue.
AfterReturn(w, c, b) ==
    LET r == FetchLokiLogs(w, Ok(b), c.prepend)
    IN  <<r.logs, r.earliest, r.latest,
          IF c.op = "older" THEN OlderEpilogue(r.can, r.count) ELSE r.can>>

\* What the backend answers to the suspended call c.
Answer(c) == BackendFetch(c.startMs, c.endMs, c.limit, c.direction)

\* C23: whenever a loadOlder and a loadNewer fetch are both outstanding
\* and both succeed, the set of entries, earliestMs, latestMs and
\* canLoadOlder after both merges are the same whichever completes first.
C23_MergeOrderIrrelevant ==
    \A co, cn \in BagToSet(calls) :
        (co.op = "older" /\ cn.op = "newer") =>
            \A afterOlder \in {AfterReturn(window, co, Answer(co))},
               afterNewer \in {AfterReturn(window, cn, Answer(cn))} :
                \A olderFirst \in {AfterReturn(afterOlder, cn, Answer(cn))},
                   newerFirst \in {AfterReturn(afterNewer, co, Answer(co))} :
                    /\ Entries(olderFirst[1]) = Entries(newerFirst[1])
                    /\ olderFirst[2] = newerFirst[2]
                    /\ olderFirst[3] = newerFirst[3]
                    /\ olderFirst[4] = newerFirst[4]

(* C25 *)

\* C25: provided every issued fetch eventually completes, a set
\* lokiLoadingOlder is eventually cleared, a set lokiLoadingNewer is
\* eventually cleared, and while the poller runs with no newer-load in
\* flight a loadNewer fetch is eventually issued (or the poller stopped).
C25_FlagsEventuallyReleased ==
    /\ lokiLoadingOlder ~> ~lokiLoadingOlder
    /\ lokiLoadingNewer ~> ~lokiLoadingNewer
    /\ (timers > 0 /\ ~lokiLoadingNewer) ~> (lokiLoadingNewer \/ timers = 0)

\* A loadOlder has just completed and released its flag while a loadNewer
\* is still in flight and the poller runs.
C25_Witness ==
    /\ last.op = "older"
    /\ ~lokiLoadingOlder
    /\ lokiLoadingNewer
    /\ timers = 1

(* C21 *)

\* C21: while the app is mounted, after any sequence of tab switches an
\* interval timer is running exactly when the active tab is the logs tab;
\* and once the app is unmounted no timer is running.
C21_TimerFollowsLogsTab ==
    /\ mounted => (timers > 0 <=> activeTab = "logs")
    /\ mounted => timers <= 1
    /\ ~mounted => timers = 0

\* The app has been unmounted while the logs tab was active and a fetch
\* was still outstanding.
C21_Witness ==
    /\ ~mounted
    /\ activeTab = "logs"
    /\ timers = 0
    /\ BagCardinality(calls) > 0

(* C28 *)

\* C28: after any sequence of toggleServiceFilter calls the service filter
\* holds at least one service and none twice, and the filtered view is the
\* subsequence of the store, in store order, of the entries whose service
\* is in the filter.
C28_FilterNonEmptyAndViewMatches ==
    /\ Len(lokiServiceFilter) >= 1
    /\ \A i, j \in 1..Len(lokiServiceFilter) :
           lokiServiceFilter[i] = lokiServiceFilter[j] => i = j
    /\ filteredLokiLogs =
           SelectSeq(lokiLogs,
                     LAMBDA log : \E i \in 1..Len(lokiServiceFilter) :
                                     lokiServiceFilter[i] = log.service)

\* Two services were toggled off and one back on, and the view shows one
\* of the two stored entries.
C28_Witness ==
    /\ lokiServiceFilter = <<"server", "ai">>
    /\ Len(lokiLogs) = 2
    /\ Len(filteredLokiLogs) = 1

(* C22 *)

\* C22: when a loadOlderLogs of the exported copy completes, the
\* container's scroll offset becomes the offset it had just before the
\* update plus the growth of the content height caused by the prepend, so
\* that it is unchanged when nothing was added.
C22_ScrollOffsetPreserved ==
    [][(impl = "export" /\ last'.op = "older" /\ last'.outcome # "dropped")
          => containerScrollTop' = containerScrollTop + (ViewHeight' - ViewHeight)]_vars

====
